---- MODULE Spec2Model ----
(***************************************************************************)
(* Pickleball open-play scheduler (src/app.py): the session dictionary     *)
(* `data`, the persisted JSON file, and the operations the page's buttons  *)
(* run on them.                                                            *)
(***************************************************************************)
EXTENDS Integers, Sequences, FiniteSets, TLC

VARIABLES data, saved

vars == <<data, saved>>

(* ------------------------------ bounds --------------------------------- *)
\* size of the roster in Spec and SpecResolve
MaxPlayers == 5
\* number of history entries in Spec and SpecResolve
MaxHistory == 3
\* number of four-player groups in the roster in SpecCourts
MaxGroups == 3
\* number of history entries in SpecCourts
MaxCourtsHistory == 1
\* size of the roster in SpecArrivals
MaxWaiting == 21
\* size of the roster and number of decided games in SpecRotation
MaxRotating == 6
MaxRotationHistory == 3

(* ------------------------- program constants --------------------------- *)
NumCourts == 3
CourtSize == 4
StreakCap == 2

Team1 == "Team 1"
Team2 == "Team 2"
NoSelection == ""
SelectOptions == <<NoSelection, Team1, Team2>>
ValidTeams == {Team1, Team2}

NameSeq == <<"A", "B", "C", "D", "E", "F", "G", "H", "I", "J", "K", "L", "M", "N", "O", "P",
             "Q", "R", "S", "T", "U", "V", "W", "X", "Y", "Z">>

CourtIdx == 0..(NumCourts - 1)

(* --------------------------- list helpers ------------------------------ *)
Range(s) == {s[k] : k \in 1..Len(s)}

\* Python slice s[a:b] on 0-based positions
Slice(s, a, b) == SubSeq(s, a + 1, IF b > Len(s) THEN Len(s) ELSE b)

RECURSIVE SelectSeqBy(_, _)
\* list comprehension [p for p in s if Keep[p]]
SelectSeqBy(s, Keep) ==
    IF s = <<>> THEN <<>>
    ELSE (IF Keep[Head(s)] THEN <<Head(s)>> ELSE <<>>) \o SelectSeqBy(Tail(s), Keep)

\* dict.get(p, 0)
StreakGet(streaks, p) == IF p \in DOMAIN streaks THEN streaks[p] ELSE 0

\* dict[p] = v
StreakSet(streaks, p, v) == [q \in (DOMAIN streaks) \cup {p} |-> IF q = p THEN v ELSE streaks[q]]

(* --------------------------- persistent storage ------------------------ *)
\* the dictionary {}
EmptyStreaks == [p \in {} |-> 0]

DefaultData ==
    [players |-> <<>>,
     queue |-> <<>>,
     courts |-> [i \in CourtIdx |-> <<>>],
     streaks |-> EmptyStreaks,
     history |-> <<>>,
     auto_fill |-> FALSE]

\* load_json when the file does not exist
load_json == DefaultData

\* save_json writes the whole dictionary
save_json(d) == d

(* --------------------------- court allocator --------------------------- *)
\* a variant that fills the court and leaves the queue as it was
TakeGroupKeepQueue(d, i) == [d EXCEPT !.courts[i] = SubSeq(d.queue, 1, CourtSize)]

\* a variant that takes the four players at the end of the line
TakeGroupFromTail(d, i) ==
    [d EXCEPT !.courts[i] = SubSeq(d.queue, Len(d.queue) - CourtSize + 1, Len(d.queue)),
              !.queue = SubSeq(d.queue, 1, Len(d.queue) - CourtSize)]

\* courts[i] = [queue.pop(0) for _ in range(4)]
TakeGroup(d, i) ==
    [d EXCEPT !.courts[i] = SubSeq(d.queue, 1, CourtSize),
              !.queue = SubSeq(d.queue, CourtSize + 1, Len(d.queue))]

RECURSIVE AssignFrom(_, _)
AssignFrom(d, i) ==
    IF i >= NumCourts THEN d
    ELSE IF Len(d.courts[i]) < CourtSize /\ Len(d.queue) >= CourtSize
         THEN AssignFrom(TakeGroup(d, i), i + 1)
         ELSE AssignFrom(d, i + 1)

\* a variant whose loop starts at the second court
AssignSkippingFirstCourt(d) == AssignFrom(d, 1)

assign_all_courts(d) == AssignFrom(d, 0)

auto_fill_if_enabled(d) == IF d.auto_fill THEN assign_all_courts(d) ELSE d

(* --------------------------- rotation engine --------------------------- *)
RECURSIVE IncrementStreaks(_, _)
IncrementStreaks(streaks, ps) ==
    IF ps = <<>> THEN streaks
    ELSE IncrementStreaks(StreakSet(streaks, Head(ps), StreakGet(streaks, Head(ps)) + 1), Tail(ps))

RECURSIVE QueueOnly(_, _)
\* a variant of the loop that re-queues the players and keeps their streaks
QueueOnly(d, ps) ==
    IF ps = <<>> THEN d
    ELSE QueueOnly([d EXCEPT !.queue = IF Head(ps) \in Range(d.queue) THEN d.queue
                                       ELSE Append(d.queue, Head(ps))],
                   Tail(ps))

RECURSIVE SendWithoutAppend(_, _)
\* a variant of the loop that resets the streaks and forgets the queue
SendWithoutAppend(d, ps) ==
    IF ps = <<>> THEN d
    ELSE SendWithoutAppend([d EXCEPT !.streaks = StreakSet(d.streaks, Head(ps), 0)], Tail(ps))

RECURSIVE SendToHead(_, _)
\* a variant of the loop that puts the players at the head of the line
SendToHead(d, ps) ==
    IF ps = <<>> THEN d
    ELSE SendToHead([d EXCEPT !.streaks = StreakSet(d.streaks, Head(ps), 0),
                              !.queue = IF Head(ps) \in Range(d.queue) THEN d.queue
                                        ELSE <<Head(ps)>> \o d.queue],
                    Tail(ps))

RECURSIVE SendToQueue(_, _)
\* for player in ps: streaks[player] = 0; append to the queue unless present
SendToQueue(d, ps) ==
    IF ps = <<>> THEN d
    ELSE SendToQueue([d EXCEPT !.streaks = StreakSet(d.streaks, Head(ps), 0),
                               !.queue = IF Head(ps) \in Range(d.queue) THEN d.queue
                                         ELSE Append(d.queue, Head(ps))],
                     Tail(ps))

\* a variant that keeps a winner on the court up to and including the cap
StayingUpToCap(d, winners) ==
    SelectSeqBy(winners, [p \in Range(winners) |-> StreakGet(d.streaks, p) <= StreakCap])

StayingWinners(d, winners) ==
    SelectSeqBy(winners, [p \in Range(winners) |-> StreakGet(d.streaks, p) < StreakCap])

\* a variant that lets a winner go only above the cap
LeavingAboveCap(d, winners) ==
    SelectSeqBy(winners, [p \in Range(winners) |-> StreakGet(d.streaks, p) > StreakCap])

LeavingWinners(d, winners) ==
    SelectSeqBy(winners, [p \in Range(winners) |-> StreakGet(d.streaks, p) >= StreakCap])

\* Python list index: negative positions count from the end
PyIndexOk(i) == i >= -NumCourts /\ i < NumCourts
PyIndex(i) == IF i < 0 THEN i + NumCourts ELSE i

Winners(court_players, winning_team) ==
    IF winning_team = Team1 THEN Slice(court_players, 0, 2)
    ELSE Slice(court_players, 2, Len(court_players))

\* a variant with the second team sliced one place early
LosersOffByOne(court_players, winning_team) ==
    IF winning_team = Team1 THEN Slice(court_players, 1, 3)
    ELSE Slice(court_players, 0, 2)

Losers(court_players, winning_team) ==
    IF winning_team = Team1 THEN Slice(court_players, 2, Len(court_players))
    ELSE Slice(court_players, 0, 2)

\* a variant that files the record under the list position of the court
HistoryEntryZeroBased(court_index, winning_team, court_players) ==
    [court |-> court_index, team_won |-> winning_team, players |-> court_players]

HistoryEntry(court_index, winning_team, court_players) ==
    [court |-> court_index + 1, team_won |-> winning_team, players |-> court_players]

\* process_court_winner on a court of four
Rotate(d, ci, court_index, winning_team) ==
    LET court_players == d.courts[ci]
        winners == Winners(court_players, winning_team)
        losers == Losers(court_players, winning_team)
        staying_winners == StayingWinners(d, winners)
        leaving_winners == LeavingWinners(d, winners)
        d1 == [d EXCEPT !.streaks = IncrementStreaks(d.streaks, staying_winners)]
        d2 == SendToQueue(d1, losers \o leaving_winners)
        needed == CourtSize - Len(staying_winners)
        taken == IF Len(d2.queue) < needed THEN Len(d2.queue) ELSE needed
        new_players == SubSeq(d2.queue, 1, taken)
    IN  [d2 EXCEPT !.queue = SubSeq(d2.queue, taken + 1, Len(d2.queue)),
                   !.courts[ci] = staying_winners \o new_players,
                   !.history = Append(d2.history,
                                      HistoryEntry(court_index, winning_team, court_players))]

\* a variant without the early return
ProcessWithoutLengthCheck(d, court_index, winning_team) ==
    IF ~PyIndexOk(court_index) THEN d
    ELSE Rotate(d, PyIndex(court_index), court_index, winning_team)

process_court_winner(d, court_index, winning_team) ==
    IF ~PyIndexOk(court_index) THEN d   \* IndexError before any assignment
    ELSE IF Len(d.courts[PyIndex(court_index)]) # CourtSize THEN d
    ELSE Rotate(d, PyIndex(court_index), court_index, winning_team)

RECURSIVE UpdateDescending(_, _, _)
\* a variant of the loop that walks the courts from the last to the first
UpdateDescending(d, sel, i) ==
    IF i >= NumCourts THEN d
    ELSE IF sel[NumCourts - 1 - i] \in ValidTeams
         THEN UpdateDescending(process_court_winner(d, NumCourts - 1 - i, sel[NumCourts - 1 - i]),
                               sel, i + 1)
         ELSE UpdateDescending(d, sel, i + 1)

RECURSIVE UpdateFrom(_, _, _)
UpdateFrom(d, sel, i) ==
    IF i >= NumCourts THEN d
    ELSE IF sel[i] \in ValidTeams
         THEN UpdateFrom(process_court_winner(d, i, sel[i]), sel, i + 1)
         ELSE UpdateFrom(d, sel, i + 1)

\* the session dictionary after update_all_courts, before its auto-fill
update_resolved(d, sel) == UpdateFrom(d, sel, 0)

(* ------------------------------ court reset ---------------------------- *)
\* a variant of the reset that keeps the streaks
ResetCourtKeepStreaks(d, court_index) ==
    [QueueOnly(d, d.courts[court_index]) EXCEPT !.courts[court_index] = <<>>]

\* reset_single_court up to its save_json call
reset_court_body(d, court_index) ==
    [SendToQueue(d, d.courts[court_index]) EXCEPT !.courts[court_index] = <<>>]

reset_single_court(d, court_index) == auto_fill_if_enabled(reset_court_body(d, court_index))

RECURSIVE ResetFrom(_, _)
ResetFrom(d, i) ==
    IF i >= NumCourts THEN d ELSE ResetFrom(reset_single_court(d, i), i + 1)

reset_all_courts(d) == ResetFrom(d, 0)

(* ------------------------------ admission ------------------------------ *)
\* a line of the text area: a name (or nothing) between blanks
Line(lead, body, trail) == [lead |-> lead, body |-> body, trail |-> trail]

\* str.strip
Strip(line) == line.body

RECURSIVE ParseLines(_)
\* [p.strip() for p in bulk_input.splitlines() if p.strip()]
ParseLines(lines) ==
    IF lines = <<>> THEN <<>>
    ELSE (IF Strip(Head(lines)) # "" THEN <<Strip(Head(lines))>> ELSE <<>>)
         \o ParseLines(Tail(lines))

RECURSIVE AddEachUnchecked(_, _)
\* a variant of the loop without the test `player not in data["players"]`
AddEachUnchecked(d, new_players) ==
    IF new_players = <<>> THEN d
    ELSE AddEachUnchecked([d EXCEPT !.players = Append(d.players, Head(new_players)),
                                    !.queue = Append(d.queue, Head(new_players)),
                                    !.streaks = StreakSet(d.streaks, Head(new_players), 0)],
                          Tail(new_players))

RECURSIVE AddEachStreakOne(_, _)
\* a variant of the loop that starts a new player with streak 1
AddEachStreakOne(d, new_players) ==
    IF new_players = <<>> THEN d
    ELSE LET player == Head(new_players)
         IN  IF player \in Range(d.players) THEN AddEachStreakOne(d, Tail(new_players))
             ELSE AddEachStreakOne([d EXCEPT !.players = Append(d.players, player),
                                             !.queue = Append(d.queue, player),
                                             !.streaks = StreakSet(d.streaks, player, 1)],
                                   Tail(new_players))

RECURSIVE AddEach(_, _)
AddEach(d, new_players) ==
    IF new_players = <<>> THEN d
    ELSE LET player == Head(new_players)
         IN  IF player \in Range(d.players) THEN AddEach(d, Tail(new_players))
             ELSE AddEach([d EXCEPT !.players = Append(d.players, player),
                                    !.queue = Append(d.queue, player),
                                    !.streaks = StreakSet(d.streaks, player, 0)],
                          Tail(new_players))

add_players(d, lines) == AddEach(d, ParseLines(lines))

(* ------------------------------ inputs --------------------------------- *)
\* the next k names nobody has used yet, one per line
FreshLines(d, k) == [j \in 1..k |-> Line(0, NameSeq[Len(d.players) + j], 0)]

\* submissions of the text area: new names, alone or after a name of the
\* roster or an empty line, or with one of them repeated between blanks
AddInputs(d) ==
    LET room == MaxPlayers - Len(d.players)
        few == {k \in 0..1 : k <= room}
        known == IF d.players = <<>> THEN {} ELSE {d.players[1]}
    IN  {FreshLines(d, k) : k \in 1..room}
        \cup {<<Line(0, n, 0)>> \o FreshLines(d, k) : n \in known, k \in few}
        \cup {FreshLines(d, k) \o <<Line(1, NameSeq[Len(d.players) + 1], 1)>> : k \in few \ {0}}
        \cup {<<Line(1, "", 0)>> \o FreshLines(d, k) : k \in few}

\* submissions of one group of new names, a court's worth
GroupInputs(d) ==
    IF Len(d.players) + CourtSize <= MaxGroups * CourtSize
    THEN {FreshLines(d, CourtSize)} ELSE {}

\* submissions of a newcomer, or of a court's worth of newcomers
ArrivalInputs(d) ==
    {FreshLines(d, k) : k \in {n \in {1, CourtSize} : Len(d.players) + n <= MaxWaiting}}

\* one or two newcomers, or a court's worth of them
RotationInputs(d) ==
    {FreshLines(d, k) : k \in {n \in {1, 2, CourtSize} : Len(d.players) + n <= MaxRotating}}

Selections == [CourtIdx -> Range(SelectOptions)]

\* what a caller of process_court_winner may pass
ResolveIndexInputs == (-1)..NumCourts
ResolveTeamInputs == {Team1, Team2, "Team 3"}

(* ------------------------------ actions -------------------------------- *)
Init ==
    /\ data = load_json
    /\ saved = load_json

\* sidebar checkbox
SetAutoFill(b) ==
    /\ data' = [data EXCEPT !.auto_fill = b]
    /\ UNCHANGED saved

\* sidebar button "Add Players"
AddPlayers(lines) ==
    /\ data' = add_players(data, lines)
    /\ saved' = save_json(data')

\* button "Assign all empty courts"
FillEmptyCourts ==
    /\ data' = assign_all_courts(data)
    /\ saved' = save_json(data')

\* button "Update All Courts"
UpdateAllCourts(sel) ==
    LET resolved == update_resolved(data, sel)
    IN  /\ data' = auto_fill_if_enabled(resolved)
        /\ saved' = IF resolved.auto_fill THEN save_json(data') ELSE save_json(resolved)

\* button "Reset Court i+1"
ResetCourt(i) ==
    /\ data' = reset_single_court(data, i)
    /\ saved' = IF data.auto_fill THEN save_json(data') ELSE save_json(reset_court_body(data, i))

\* sidebar button "Reset All Courts"
ResetAllCourts ==
    /\ data' = reset_all_courts(data)
    /\ saved' = save_json(data')

\* a variant of the full reset that keeps the record of games
ResetAllKeepHistory ==
    /\ data' = [DefaultData EXCEPT !.history = data.history]
    /\ saved' = save_json(data')

\* sidebar button "Reset All Data"
ResetAll ==
    /\ data' = DefaultData
    /\ saved' = save_json(data')

\* a direct call process_court_winner(court_index, winning_team)
Resolve(i, w) ==
    /\ data' = process_court_winner(data, i, w)
    /\ UNCHANGED saved

\* the history the model lets a batch of outcomes produce
WithinHistory(sel, max) == Len(update_resolved(data, sel).history) <= max

Next ==
    \/ \E b \in BOOLEAN : SetAutoFill(b)
    \/ \E lines \in AddInputs(data) : AddPlayers(lines)
    \/ FillEmptyCourts
    \/ \E sel \in Selections : WithinHistory(sel, MaxHistory) /\ UpdateAllCourts(sel)
    \/ \E i \in CourtIdx : ResetCourt(i)
    \/ ResetAllCourts
    \/ ResetAll

Spec == Init /\ [][Next]_vars

\* a session with auto-fill left off and outcomes given by direct calls of
\* process_court_winner
NextResolve ==
    \/ \E lines \in AddInputs(data) : AddPlayers(lines)
    \/ FillEmptyCourts
    \/ \E i \in ResolveIndexInputs, w \in ResolveTeamInputs :
          Len(data.history) < MaxHistory /\ Resolve(i, w)
    \/ \E i \in CourtIdx : ResetCourt(i)
    \/ ResetAllCourts
    \/ ResetAll

SpecResolve == Init /\ [][NextResolve]_vars

\* a full house: the roster grows by groups
NextCourts ==
    \/ \E b \in BOOLEAN : SetAutoFill(b)
    \/ \E lines \in GroupInputs(data) : AddPlayers(lines)
    \/ FillEmptyCourts
    \/ \E sel \in Selections : WithinHistory(sel, MaxCourtsHistory) /\ UpdateAllCourts(sel)
    \/ \E i \in CourtIdx : ResetCourt(i)
    \/ ResetAllCourts
    \/ ResetAll

SpecCourts == Init /\ [][NextCourts]_vars

\* nobody has been sent back to the queue yet: no game is recorded, and
\* courts 0..2 followed by the queue list the roster in arrival order
InArrivalOrder(d) ==
    /\ d.history = <<>>
    /\ d.courts[0] \o d.courts[1] \o d.courts[2] \o d.queue = d.players

\* a roster that the sessions of Spec can hold
SmallSession(d) == Len(d.players) <= MaxPlayers

\* an evening of arrivals: a small session goes on as in Spec, a large one
\* is followed until players are first sent back to the queue
NextArrivals ==
    \/ \E b \in BOOLEAN : SetAutoFill(b)
    \/ ResetAll
    \/ SmallSession(data) /\ Next
    \/ InArrivalOrder(data) /\ \E lines \in ArrivalInputs(data) : AddPlayers(lines)
    \/ InArrivalOrder(data) /\ FillEmptyCourts
    \/ InArrivalOrder(data) /\ \E sel \in Selections : UpdateAllCourts(sel)
    \/ InArrivalOrder(data) /\ \E i \in CourtIdx : ResetCourt(i)
    \/ InArrivalOrder(data) /\ ResetAllCourts

SpecArrivals == Init /\ [][NextArrivals]_vars

\* one game after the other decided by direct calls of process_court_winner,
\* with a short line of players waiting
NextRotation ==
    \/ \E lines \in RotationInputs(data) : AddPlayers(lines)
    \/ FillEmptyCourts
    \/ \E i \in CourtIdx, w \in ValidTeams :
          Len(data.history) < MaxRotationHistory /\ Resolve(i, w)
    \/ \E i \in CourtIdx : ResetCourt(i)
    \/ ResetAll

SpecRotation == Init /\ [][NextRotation]_vars

(* --------------------------- steps of the session ---------------------- *)
StepSetAutoFill == \E b \in BOOLEAN : SetAutoFill(b)
StepAddPlayers == \E lines \in AddInputs(data) \cup GroupInputs(data) : AddPlayers(lines)
StepUpdateAllCourts == \E sel \in Selections : UpdateAllCourts(sel)
StepResetCourt == \E i \in CourtIdx : ResetCourt(i)

\* everybody waiting or playing, queue first
Placed(d) == d.queue \o d.courts[0] \o d.courts[1] \o d.courts[2]

AllActive(d) == \A i \in CourtIdx : Len(d.courts[i]) = CourtSize
AllEmpty(d) == \A i \in CourtIdx : d.courts[i] = <<>>

(* ------------------------------- claims -------------------------------- *)

\* C1: no player name occurs more than once across the queue and all the
\* courts: not twice in the queue, not on two courts or twice on one court,
\* not on a court and in the queue at the same time.
C1_NoPlayerTwice ==
    \A a, b \in 1..Len(Placed(data)) : a # b => Placed(data)[a] # Placed(data)[b]

\* two courts playing and a group waiting, after a game has been decided
C1_Witness ==
    /\ Len(data.courts[0]) = CourtSize
    /\ Len(data.courts[1]) = CourtSize
    /\ Len(data.queue) = CourtSize
    /\ Len(data.history) = 1

\* C3: with auto-fill enabled, after addPlayers, setAutoFill, resolveAll,
\* resetCourt or resetAllCourts has completed there is no court holding fewer
\* than 4 players while the queue holds at least 4.
Underfilled(d) ==
    \E i \in CourtIdx : Len(d.courts[i]) < CourtSize /\ Len(d.queue) >= CourtSize

C3_AutoFillAfterEveryOperation ==
    [][((StepAddPlayers \/ StepSetAutoFill \/ StepUpdateAllCourts \/ StepResetCourt
           \/ ResetAllCourts) /\ data'.auto_fill)
         => ~Underfilled(data')]_vars

\* C4 as stated: resetAllCourts on three active courts empties all courts,
\* sets the streak of each of the 12 occupants to 0 and appends the 12 to the
\* queue tail in ascending court order, each court in position order, behind
\* the players already queued.
ResetAllOutcome ==
    /\ AllEmpty(data')
    /\ data'.queue = data.queue \o data.courts[0] \o data.courts[1] \o data.courts[2]
    /\ \A i \in CourtIdx : \A k \in 1..CourtSize : data'.streaks[data.courts[i][k]] = 0
    /\ data'.players = data.players /\ data'.history = data.history

C4_ResetAllCourtsEmptiesCourts ==
    [][(ResetAllCourts /\ AllActive(data)) => ResetAllOutcome]_vars

\* C4 amended: the same outcome, for resetAllCourts called with auto-fill
\* disabled.
C4_ResetAllCourtsAutoFillOff ==
    [][(ResetAllCourts /\ AllActive(data) /\ ~data.auto_fill) => ResetAllOutcome]_vars

\* all twelve players of a decided game back in the queue, nobody playing
C4_Witness ==
    /\ AllEmpty(data)
    /\ Len(data.queue) = NumCourts * CourtSize
    /\ Len(data.history) = 1
    /\ ~data.auto_fill
    /\ \A p \in Range(data.queue) : data.streaks[p] = 0

\* C5: a resolve call whose target court does not hold exactly 4 players
\* leaves the whole state (roster, queue, courts, streaks, history, auto-fill
\* flag, and the file) as it was.
C5_ResolveOnNonFullCourtIsNoOp ==
    [][\A i \in ResolveIndexInputs, w \in ResolveTeamInputs :
          (PyIndexOk(i) /\ Len(data.courts[PyIndex(i)]) # CourtSize /\ Resolve(i, w))
            => (data' = data /\ saved' = saved)]_vars

\* a court stands empty while players wait and games have been recorded
C5_Witness ==
    /\ data.courts[0] = <<>>
    /\ Len(data.queue) = MaxPlayers
    /\ Len(data.history) > 0

\* C2: a player with streak 1 on the winning side of a resolve on a full court
\* leaves in that same resolve: streak 0 when the resolve completes, and
\* waiting in the queue (unless the queue was so short that the refill took
\* the player straight back).
C2_CapAppliedInSameResolve ==
    [][\A i \in CourtIdx, w \in ValidTeams :
          (Len(data.courts[i]) = CourtSize /\ Resolve(i, w))
            => \A k \in (IF w = Team1 THEN {1, 2} ELSE {3, 4}) :
                 LET p == data.courts[i][k]
                 IN  data.streaks[p] = 1
                       => /\ data'.streaks[p] = 0
                          /\ (Len(data.queue) >= 2 => p \in Range(data'.queue))]_vars

\* C6: a resolve request with a winning side that is neither team marker, or
\* with a court index outside the existing courts, leaves the whole state as
\* it was.
C6_InvalidResolveRejected ==
    [][\A i \in ResolveIndexInputs, w \in ResolveTeamInputs :
          ((w \notin ValidTeams \/ i \notin CourtIdx) /\ Resolve(i, w))
            => (data' = data /\ saved' = saved)]_vars

\* C7: a resolve on a full court [p0,p1,p2,p3] whose four streaks are 0: the
\* two winners keep the first places in their order with streak 1, the two
\* losers get streak 0 and go to the queue tail in court order, and the court
\* is refilled to 4 from the queue head, in dequeue order, behind the winners.
C7_ResolveWithFreshStreaks ==
    [][\A i \in CourtIdx, w \in ValidTeams :
          (/\ Len(data.courts[i]) = CourtSize
           /\ \A k \in 1..CourtSize : data.streaks[data.courts[i][k]] = 0
           /\ Resolve(i, w))
            => LET c == data.courts[i]
                   win == IF w = Team1 THEN <<c[1], c[2]>> ELSE <<c[3], c[4]>>
                   lose == IF w = Team1 THEN <<c[3], c[4]>> ELSE <<c[1], c[2]>>
                   line == data.queue \o lose
               IN  /\ data'.courts[i] = win \o <<line[1], line[2]>>
                   /\ data'.queue = SubSeq(line, 3, Len(line))
                   /\ data'.streaks[win[1]] = 1 /\ data'.streaks[win[2]] = 1
                   /\ data'.streaks[lose[1]] = 0 /\ data'.streaks[lose[2]] = 0
                   /\ \A j \in CourtIdx \ {i} : data'.courts[j] = data.courts[j]]_vars

\* the first game of a court is decided for team 1 while somebody waits: the
\* winners lead the court, a waiting player has joined, a loser is last in
\* the queue
C7_Witness ==
    /\ Len(data.history) = 1
    /\ data.history[1].team_won = Team1
    /\ Len(data.courts[0]) = CourtSize
    /\ data.courts[0][1] = data.history[1].players[1]
    /\ data.courts[0][2] = data.history[1].players[2]
    /\ data.courts[0][3] \notin Range(data.history[1].players)
    /\ data.streaks[data.courts[0][1]] = 1
    /\ data.queue # <<>>
    /\ data.queue[Len(data.queue)] = data.history[1].players[4]

\* C8: every resolve on a court of exactly 4 appends exactly one history
\* entry, holding the court number, the declared side and the 4 players from
\* before the resolution; only the full reset shortens or changes the
\* history; fill, resetCourt, resetAllCourts, addPlayers and resolves on a
\* court not of 4 leave it as it is.
IsPrefix(s, t) == Len(s) <= Len(t) /\ SubSeq(t, 1, Len(s)) = s

C8_HistoryAppendOnly ==
    [][/\ \A i \in CourtIdx, w \in ResolveTeamInputs :
            Resolve(i, w)
              => data'.history =
                   IF Len(data.courts[i]) = CourtSize
                   THEN Append(data.history,
                               [court |-> i + 1, team_won |-> w, players |-> data.courts[i]])
                   ELSE data.history
       /\ (ResetAll \/ IsPrefix(data.history, data'.history))
       /\ (StepAddPlayers \/ FillEmptyCourts \/ StepResetCourt \/ ResetAllCourts)
            => data'.history = data.history]_vars

\* three games recorded, the last one played by another four than the first
C8_Witness ==
    /\ Len(data.history) = MaxHistory
    /\ data.history[MaxHistory].players # data.history[1].players
    /\ data.history[MaxHistory].court = 1

\* C9: every streak is an integer >= 0, and when a resolve completes each
\* loser of it, and each winner it sent away at the cap, has streak 0.
C9_StreaksNonNegativeZeroOnLeaving ==
    /\ [](\A p \in DOMAIN data.streaks : data.streaks[p] \in Nat)
    /\ [][\A i \in CourtIdx, w \in ValidTeams :
             (Len(data.courts[i]) = CourtSize /\ Resolve(i, w))
               => /\ \A k \in (IF w = Team1 THEN {3, 4} ELSE {1, 2}) :
                        data'.streaks[data.courts[i][k]] = 0
                  /\ \A k \in (IF w = Team1 THEN {1, 2} ELSE {3, 4}) :
                        LET p == data.courts[i][k]
                        IN  (data.streaks[p] >= StreakCap \/ p \in Range(data'.queue))
                              => data'.streaks[p] = 0]_vars

\* the same pair has won three games in a row and has been sent away
C9_Witness ==
    /\ Len(data.history) = 3
    /\ \A k \in 1..3 : data.history[k].team_won = Team1
    /\ data.history[1].players[1] = data.history[2].players[1]
    /\ data.history[2].players[1] = data.history[3].players[1]
    /\ data.streaks[data.history[3].players[1]] = 0
    /\ data.history[3].players[2] \in Range(data.queue)

\* C10: fill visits the courts in ascending index; each court with fewer than
\* 4 players reached while the queue holds at least 4 becomes the first 4 of
\* the queue, which loses exactly those; a court reached with fewer than 4
\* queued stays as it is; no court of 1 to 3 players results and nobody
\* leaves the queue without being placed.  Stated for the courts of the
\* state with every prefix of its queue.
ShortCourts(d) == SelectSeq(<<0, 1, 2>>, LAMBDA i : Len(d.courts[i]) < CourtSize)

FillOutcome(d, r) ==
    LET short == ShortCourts(d)
        groups == Len(d.queue) \div CourtSize
        m == IF Len(short) < groups THEN Len(short) ELSE groups
    IN  /\ \A k \in 1..Len(short) :
              r.courts[short[k]] =
                  IF k <= m THEN SubSeq(d.queue, CourtSize * (k - 1) + 1, CourtSize * k)
                  ELSE d.courts[short[k]]
        /\ \A i \in CourtIdx \ Range(short) : r.courts[i] = d.courts[i]
        /\ r.queue = SubSeq(d.queue, CourtSize * m + 1, Len(d.queue))
        /\ \A i \in CourtIdx : Len(r.courts[i]) \in {0, CourtSize}
        /\ Range(d.queue) \ Range(r.queue)
              \subseteq UNION {Range(r.courts[i]) : i \in CourtIdx}
        /\ r.players = d.players /\ r.streaks = d.streaks
        /\ r.history = d.history /\ r.auto_fill = d.auto_fill

C10_FillTakesGroupsInCourtOrder ==
    \A n \in 0..Len(data.queue) :
        LET d == [data EXCEPT !.queue = SubSeq(data.queue, 1, n)]
        IN  FillOutcome(d, assign_all_courts(d))

\* eight players came, the button filled the first two courts in order
C10_Witness ==
    /\ Len(data.players) = 2 * CourtSize
    /\ ~data.auto_fill
    /\ data.history = <<>>
    /\ data.courts[0] = SubSeq(data.players, 1, CourtSize)
    /\ data.courts[1] = SubSeq(data.players, CourtSize + 1, 2 * CourtSize)
    /\ data.courts[2] = <<>>
    /\ data.queue = <<>>

\* C11: after addPlayers, setAutoFill, resolveAll, fillEmptyCourts,
\* resetCourt, resetAllCourts or resetAll has completed, the file holds the
\* session as it is in memory (players, queue, courts, streaks, history,
\* auto_fill).
C11_PersistedAfterEveryOperation ==
    [][(StepSetAutoFill \/ StepAddPlayers \/ FillEmptyCourts \/ StepResetCourt
          \/ ResetAllCourts \/ ResetAll \/ StepUpdateAllCourts)
         => saved' = data']_vars

\* C12: every court holds 0 or exactly 4 players.
C12_CourtsEmptyOrFull ==
    \A i \in CourtIdx : Len(data.courts[i]) \in {0, CourtSize}

\* three games decided on a court that is still full, the other courts empty
C12_Witness ==
    /\ Len(data.history) = MaxHistory
    /\ Len(data.courts[0]) = CourtSize
    /\ data.courts[1] = <<>>
    /\ Len(data.queue) = 1

\* position of a waiting player in the line, 1 = head
QueuePos(d, p) == CHOOSE k \in 1..Len(d.queue) : d.queue[k] = p

Queued(d) == Range(d.queue)

\* from d to e no waiting player overtakes another one: two players still
\* waiting keep their order, and none is taken from the line while a player
\* ahead of them is still in it
KeepsQueueOrder(d, e) ==
    \A p, q \in Queued(d) :
        QueuePos(d, p) < QueuePos(d, q) =>
            /\ (p \in Queued(e) /\ q \in Queued(e)) => QueuePos(e, p) < QueuePos(e, q)
            /\ ~(p \in Queued(e) /\ q \notin Queued(e))

RosterLines(d) == [j \in 1..Len(d.players) |-> Line(0, d.players[j], 0)]

\* line of the submission on which a name occurs first
FirstLine(names, n) == CHOOSE k \in 1..Len(names) : names[k] = n /\ \A j \in 1..(k-1) : names[j] # n

\* r is d with each new name of the submission appended once, in the order
\* of first occurrence, to the roster and to the queue tail with streak 0,
\* and with nothing else changed
AddedOnce(d, lines, r) ==
    LET names == ParseLines(lines)
        old == Len(d.players)
        new == SubSeq(r.players, old + 1, Len(r.players))
    IN  /\ Len(r.players) >= old
        /\ SubSeq(r.players, 1, old) = d.players
        /\ r.queue = d.queue \o new
        /\ Range(new) = Range(names) \ Range(d.players)
        /\ \A a, b \in 1..Len(new) :
              a < b => FirstLine(names, new[a]) < FirstLine(names, new[b])
        /\ DOMAIN r.streaks = DOMAIN d.streaks \cup Range(new)
        /\ \A p \in Range(new) : r.streaks[p] = 0
        /\ \A p \in DOMAIN d.streaks : r.streaks[p] = d.streaks[p]
        /\ r.courts = d.courts
        /\ r.history = d.history
        /\ r.auto_fill = d.auto_fill

\* C14: addPlayers deduplicates by name and is idempotent: each name not yet
\* in the roster is appended once to the roster and once to the queue tail
\* with streak 0, also when it is repeated inside the submission; a name of
\* the roster changes nothing (no streak, no position); submitting the same
\* names a second time gives the state of the first submission.
C14_AddPlayersDedupIdempotent ==
    \A lines \in AddInputs(data) \cup {RosterLines(data)} :
        LET once == add_players(data, lines)
        IN  /\ AddedOnce(data, lines, once)
            /\ add_players(once, lines) = once

\* a fifth player who arrived after the first game: the first two players
\* hold a streak on court and the newcomer waits alone
C14_Witness ==
    /\ Len(data.players) = CourtSize + 1
    /\ Len(data.history) = 1
    /\ data.streaks[data.players[1]] = 1
    /\ data.queue = <<data.players[CourtSize + 1]>>

\* the winners of court i whom a game won by team w forces out: their streak
\* has reached the cap
ForcedOut(d, i, w) ==
    {p \in Range(Winners(d.courts[i], w)) : StreakGet(d.streaks, p) >= StreakCap}

\* in e the players ps wait in the queue and stand on no court
SitOut(e, ps) ==
    \A p \in ps : p \in Range(e.queue) /\ \A j \in CourtIdx : p \notin Range(e.courts[j])

\* C15 as stated: when the resolve that forces a winner out completes, the
\* winner waits in the queue and is on no court, whatever the length of the
\* queue before the resolve.
C15_ForcedOutWinnerSitsOut ==
    \A i \in CourtIdx, w \in ValidTeams :
        Len(data.courts[i]) = CourtSize
            => SitOut(process_court_winner(data, i, w), ForcedOut(data, i, w))

\* C15 amended: when the resolve that forces winners out completes, they wait
\* in the queue and are on no court, provided the queue held at least as
\* many players before the resolve as winners are forced out by it.
C15_ForcedOutWinnerSitsOutBehindQueue ==
    \A i \in CourtIdx, w \in ValidTeams :
        (Len(data.courts[i]) = CourtSize
           /\ Len(data.queue) >= Cardinality(ForcedOut(data, i, w)))
            => SitOut(process_court_winner(data, i, w), ForcedOut(data, i, w))

\* three games in a row won by the same pair on the first court, with two
\* players waiting: after the third the pair is in the queue with streak 0
C15_Witness ==
    /\ Len(data.history) = 3
    /\ Len(data.players) = CourtSize + 2
    /\ \A k \in 1..3 : data.history[k].court = 1 /\ data.history[k].team_won = Team1
    /\ \A k \in 1..3 : data.history[k].players[1] = data.players[1]
    /\ data.players[1] \in Range(data.queue)
    /\ data.players[1] \notin Range(data.courts[0])

\* resolve of court i if its selection is a team, nothing otherwise
ResolveIfSelected(d, sel, i) ==
    IF sel[i] \in ValidTeams THEN process_court_winner(d, i, sel[i]) ELSE d

\* resolve applied to courts 0, 1, 2 in this order
ResolvedAscending(d, sel) ==
    ResolveIfSelected(ResolveIfSelected(ResolveIfSelected(d, sel, 0), sel, 1), sel, 2)

\* players of court i in d who wait in the queue in e
LeftCourt(d, e, i) == Range(d.courts[i]) \cap Range(e.queue)

\* C16: resolveAll handles the validly selected courts in ascending court
\* index and skips the others: its result is resolve applied to the selected
\* courts in increasing index order followed by one fill iff auto-fill is
\* enabled; the games are recorded in ascending court order and only for
\* selected courts; a court without a valid selection is not resolved; and
\* players leaving a lower court are queued ahead of players leaving a
\* higher court of the same batch.
C16_UpdateAllCourtsAscending ==
    \A sel \in Selections :
        LET resolved == update_resolved(data, sel)
            after == auto_fill_if_enabled(resolved)
            old == Len(data.history)
        IN  /\ resolved = ResolvedAscending(data, sel)
            /\ after = IF data.auto_fill THEN assign_all_courts(ResolvedAscending(data, sel))
                       ELSE ResolvedAscending(data, sel)
            /\ SubSeq(resolved.history, 1, old) = data.history
            /\ \A k \in (old + 1)..Len(resolved.history) :
                  /\ sel[resolved.history[k].court - 1] = resolved.history[k].team_won
                  /\ resolved.history[k].team_won \in ValidTeams
                  /\ k > old + 1 => resolved.history[k - 1].court < resolved.history[k].court
            /\ \A i \in CourtIdx :
                  sel[i] \notin ValidTeams => resolved.courts[i] = data.courts[i]
            /\ \A i, j \in CourtIdx :
                  (i < j /\ sel[i] \in ValidTeams /\ sel[j] \in ValidTeams) =>
                      \A p \in LeftCourt(data, after, i), q \in LeftCourt(data, after, j) :
                          QueuePos(after, p) < QueuePos(after, q)

\* thirteen players, two courts decided in one batch with five players
\* waiting: the losers of the first court wait ahead of those of the second
C16_Witness ==
    /\ Len(data.players) = 3 * CourtSize + 1
    /\ Len(data.history) = 2
    /\ data.history[1].court = 1
    /\ data.history[2].court = 2
    /\ data.queue = <<data.players[13], data.players[1], data.players[2],
                      data.players[5], data.players[6]>>

\* C17: resetAll from any reachable state yields the default empty state:
\* empty roster, empty queue, three courts all empty, empty streak map and
\* empty history.
C17_ResetAllYieldsDefaultState ==
    [][ResetAll =>
         /\ data'.players = <<>>
         /\ data'.queue = <<>>
         /\ DOMAIN data'.courts = 0..2
         /\ \A i \in DOMAIN data'.courts : data'.courts[i] = <<>>
         /\ DOMAIN data'.streaks = {}
         /\ data'.history = <<>>]_vars

\* a session worth resetting: five players, three games recorded, a streak
\* of 2 on the court and auto-fill enabled
C17_Witness ==
    /\ Len(data.players) = CourtSize + 1
    /\ Len(data.history) = 3
    /\ \E p \in DOMAIN data.streaks : data.streaks[p] = StreakCap
    /\ data.auto_fill
    /\ ENABLED ResetAll

NoRepeat(s) == \A a, b \in 1..Len(s) : a # b => s[a] # s[b]

\* C18: no player is ever lost: every player of the roster is in exactly one
\* place, in the queue or on exactly one court; the players in the queue and
\* on the courts are the roster, which is the domain of the streak map.
C18_NoPlayerLost ==
    /\ NoRepeat(data.players)
    /\ NoRepeat(data.queue \o data.courts[0] \o data.courts[1] \o data.courts[2])
    /\ Range(data.queue) \cup UNION {Range(data.courts[i]) : i \in CourtIdx}
          = Range(data.players)
    /\ DOMAIN data.streaks = Range(data.players)

\* thirteen players after a batch of two decided games and a refill: all
\* three courts playing and one of the losers waiting
C18_Witness ==
    /\ Len(data.players) = 3 * CourtSize + 1
    /\ Len(data.history) = 2
    /\ AllActive(data)
    /\ Len(data.queue) = 1
    /\ data.queue # <<data.players[3 * CourtSize + 1]>>

\* C19: every player waiting in the queue has streak 0; a non-zero streak is
\* held only by a player on a court; no streak exceeds 2 (or is negative).
C19_QueuedStreakZeroCapTwo ==
    /\ \A p \in Range(data.queue) : data.streaks[p] = 0
    /\ \A p \in DOMAIN data.streaks :
          /\ data.streaks[p] \in 0..2
          /\ data.streaks[p] # 0 => \E i \in CourtIdx : p \in Range(data.courts[i])

\* a pair at streak 2 on the court while a former winner waits with streak 0
C19_Witness ==
    /\ Len(data.history) = 3
    /\ \E p \in Range(data.courts[0]) : data.streaks[p] = 2
    /\ \E p \in Range(data.queue) :
          /\ data.streaks[p] = 0
          /\ p \in Range(Winners(data.history[1].players, data.history[1].team_won))

\* from d to e no player who waits in both stands further from the head
MovesNobodyBack(d, e) ==
    \A p \in Queued(d) \cap Queued(e) : QueuePos(e, p) <= QueuePos(d, p)

\* a game decided on the full court i keeps the length of the queue, refills
\* the court to four, puts the first two waiting players on it, and brings
\* every other waiting player onto it or at least two places nearer the head
ResolveAdvances(d, i, w) ==
    LET e == process_court_winner(d, i, w)
    IN  Len(d.courts[i]) = CourtSize =>
            /\ Len(e.queue) = Len(d.queue)
            /\ Len(e.courts[i]) = CourtSize
            /\ \A p \in Queued(d) :
                  \/ p \in Range(e.courts[i])
                  \/ /\ QueuePos(d, p) > 2
                     /\ p \in Queued(e)
                     /\ QueuePos(e, p) <= QueuePos(d, p) - 2

====
